---- MODULE Spec2Model ----
(***************************************************************************)
(* Model of the text chunker of mneme (src/ingestion/chunker.py).          *)
(*                                                                         *)
(* A text is a sequence of one-character strings.  One behaviour is one    *)
(* call of TextChunker.chunk_text on a chunker built from some settings:   *)
(* the page, recursive and semantic strategies are pure functions of the   *)
(* input and are applied in one step; the fixed strategy is a while loop   *)
(* that need not terminate, so every iteration of it is one step.          *)
(*                                                                         *)
(* Further specifications of the module: concurrent calls of chunk_text on *)
(* one chunker (calls), the conversation history of the RAG agent          *)
(* (src/rag/agent.py) and the steps of one run of the ingestion pipeline   *)
(* (src/ingestion/ingest.py).  Each specification moves its own variables  *)
(* and leaves the others as they are.                                      *)
(***************************************************************************)
EXTENDS Integers, Sequences, FiniteSets, TLC

VARIABLES
    chunk_size,     \* self.chunk_size
    chunk_overlap,  \* self.chunk_overlap
    strategy,       \* self.strategy
    text,           \* argument text of chunk_text
    metadata,       \* argument metadata of chunk_text (None or a mapping)
    note_id,        \* argument note_id of chunk_text (None or a string)
    pc,             \* "call", "fixed_loop", "done"
    start,          \* _fixed_chunk: the cursor
    chunk_index,    \* _fixed_chunk: the counter of emitted chunks
    chunks,         \* the list of chunks built / returned
    exc,            \* "none", or the name of the exception the call raised
    calls,          \* concurrent calls of chunk_text: the locals of each caller
    max_history,            \* RAGAgent.max_history
    conversation_history,   \* RAGAgent.conversation_history
    last_query,             \* how the last call on the agent ended
    dry_run,                \* ingest_vault: argument dry_run
    batch_size,             \* EmbeddingsGenerator.batch_size
    next_note,              \* ingest_vault: the notes chunked so far
    ingest_pc,              \* ingest_vault: "parse", "chunk", "embed", "store", "done"
    notes,                  \* ingest_vault: the parsed notes
    all_chunks,             \* ingest_vault: the chunks of the notes chunked so far
    embeddings,             \* embed_batch: the embeddings generated so far
    chunk_embedding_pairs,  \* ingest_vault: the result of embed_chunks
    upserted,               \* VectorStore: the points written by client.upsert
    upsert_calls,           \* the number of calls of upsert_chunks
    stats,                  \* ingest_vault: the statistics dictionary
    ingest_exc              \* "none", or the step in which ingest_vault raised

chunkerVars == <<chunk_size, chunk_overlap, strategy, text, metadata, note_id,
                 pc, start, chunk_index, chunks, exc>>
callVars == <<calls>>
agentVars == <<max_history, conversation_history, last_query>>
ingestVars == <<dry_run, batch_size, next_note, ingest_pc, notes, all_chunks, embeddings,
                chunk_embedding_pairs, upserted, upsert_calls, stats, ingest_exc>>

vars == <<chunkerVars, callVars, agentVars, ingestVars>>

---------------------------------------------------------------------------
(* Bounds of the model *)

MaxLen == 4
MaxChunkSize == 3
MaxOverlap == 2

\* The fixed loop of a call that returns visits every cursor value at most
\* once, and the cursor stays within -len(text) - overlap .. len(text) - 1;
\* a loop that has emitted more chunks than that never returns.
MaxChunks == 2 * Len(text) + chunk_overlap + 1

Alphabet == {"a", " ", "\n", "."}
Texts == UNION {[1..n -> Alphabet] : n \in 0..MaxLen}

MaxLongLen == 6
LongAlphabet == {"a", " ", "."}
LongTexts == UNION {[1..n -> LongAlphabet] : n \in 0..MaxLongLen}

MaxRoundLen == 5

MaxCallLen == 3
CallAlphabet == {"a", " "}
CallTexts == UNION {[1..n -> CallAlphabet] : n \in 0..MaxCallLen}
Callers == {1, 2}

MaxHistory == 2
MaxMessages == 2 * MaxHistory + 2
Questions == {"q1", "q2"}

MaxNotes == 2
MaxNoteChunks == 2
MaxBatchSize == 2
Answers == {"a1", "a2"}
RoundAlphabet == {"a", " ", "\n"}
RoundTexts == UNION {[1..n -> RoundAlphabet] : n \in 0..MaxRoundLen}

None == {}
Some(v) == {v}
Value(opt) == CHOOSE v \in opt : TRUE

MetadataInputs ==
    {None, Some([title |-> "T"]), Some([title |-> "T", chunk_index |-> 7, total_chunks |-> 9])}
NoteIdInputs == {None, Some("n1")}
Strategies == {"page", "recursive", "fixed", "semantic", "bogus"}

---------------------------------------------------------------------------
(* Python's str and re operations, as the chunker uses them *)

Min(a, b) == IF a <= b THEN a ELSE b
Max(a, b) == IF a >= b THEN a ELSE b
SetMin(S) == CHOOSE x \in S : \A y \in S : x <= y
SetMax(S) == CHOOSE x \in S : \A y \in S : x >= y

\* the characters str.strip() removes and the regex class \s matches
Whitespace == {" ", "\n", "\t"}

\* str.strip()
strip(s) ==
    LET keep == {i \in 1..Len(s) : s[i] \notin Whitespace}
    IN  IF keep = {} THEN <<>> ELSE SubSeq(s, SetMin(keep), SetMax(keep))

\* s[i:i+len(sub)] == sub, i a 0-based index
OccursAt(s, sub, i) ==
    /\ i >= 0
    /\ i + Len(sub) <= Len(s)
    /\ \A j \in 1..Len(sub) : s[i + j] = sub[j]

\* str.find(sub) with the start position left out
find_from_start(s, sub, from) ==
    LET hits == {i \in 0..(Len(s) - Len(sub)) : OccursAt(s, sub, i)}
    IN  IF hits = {} THEN -1 ELSE SetMin(hits)

\* str.find(sub, from): the lowest 0-based index >= from, or -1
\* the search that never finds
find_not_found(s, sub, from) == -1

find(s, sub, from) ==
    LET hits == {i \in from..(Len(s) - Len(sub)) : OccursAt(s, sub, i)}
    IN  IF hits = {} THEN -1 ELSE SetMin(hits)

\* str.split(sep) for a non-empty sep
RECURSIVE split(_, _)
split(s, sep) ==
    LET i == find(s, sep, 0)
    IN  IF i = -1 THEN <<s>>
        ELSE <<SubSeq(s, 1, i)>> \o split(SubSeq(s, i + Len(sep) + 1, Len(s)), sep)

\* str.split("") raises ValueError("empty separator")
split_raises(sep) == sep = <<>>

\* s[lo:hi] with Python's treatment of negative and out-of-range bounds
slice(s, lo, hi) ==
    LET n == Len(s)
        l == IF lo < 0 THEN Max(lo + n, 0) ELSE Min(lo, n)
        h == IF hi < 0 THEN Max(hi + n, 0) ELSE Min(hi, n)
    IN  SubSeq(s, l + 1, h)

\* s[k] raises IndexError unless -len(s) <= k < len(s)
index_raises(s, k) == k < 0 - Len(s) \/ k >= Len(s)
index(s, k) == IF k < 0 THEN s[k + Len(s) + 1] ELSE s[k + 1]

\* re.split(r"(?<=[.!?])\s+", s): cut at every maximal run of whitespace that
\* directly follows one of . ! ?
SentenceEnd == {".", "!", "?"}
RECURSIVE re_split_sentences(_)
re_split_sentences(s) ==
    LET cuts == {i \in 2..Len(s) : s[i] \in Whitespace /\ s[i - 1] \in SentenceEnd}
    IN  IF cuts = {} THEN <<s>>
        ELSE LET i == SetMin(cuts)
                 run == {j \in i..Len(s) : \A k \in i..j : s[k] \in Whitespace}
                 j == SetMax(run)
             IN  <<SubSeq(s, 1, i - 1)>> \o re_split_sentences(SubSeq(s, j + 1, Len(s)))

---------------------------------------------------------------------------
(* TextChunker *)

separators ==
    << <<"\n", "\n", "\n">>, <<"\n", "\n">>, <<"\n">>,
       <<".", " ">>, <<"!", " ">>, <<"?", " ">>,
       <<";", " ">>, <<",", " ">>, <<" ">>, <<>> >>

\* chunk_text's defaults for its optional arguments
metadata_or_default == IF metadata = None THEN <<>> ELSE Value(metadata)
\* the default document id rendered as the text of None
note_id_or_none == IF note_id = None THEN "None" ELSE Value(note_id)

note_id_or_default == IF note_id = None THEN "unknown" ELSE Value(note_id)

\* the estimate rounded up instead of down
estimate_tokens_rounded_up(s) == (Len(s) + 3) \div 4

estimate_tokens(s) == Len(s) \div 4

\* {**metadata, <added keys>}: the added keys win
merge_metadata(md, added) == added @@ md

TextChunk(content, chunk_id, start_char, end_char, md, token_count) ==
    [content |-> content, chunk_id |-> chunk_id, start_char |-> start_char,
     end_char |-> end_char, metadata |-> md, token_count |-> token_count]

Returned(cs) == [exc |-> "none", chunks |-> cs]
Raised(e) == [exc |-> e, chunks |-> <<>>]

\* _page_chunk without the strip of the text
page_chunk_unstripped(t, md, nid) ==
    IF strip(t) = <<>> THEN Returned(<<>>)
    ELSE Returned(<<TextChunk(t, nid \o "_page", 0, Len(t),
             merge_metadata(md, [chunk_index |-> 0, total_chunks |-> 1,
                                 chunking_strategy |-> "page"]),
             estimate_tokens(t))>>)

(* _page_chunk *)
page_chunk(t, md, nid) ==
    LET stripped == strip(t)
    IN  IF stripped = <<>> THEN Returned(<<>>)
        ELSE Returned(<<TextChunk(stripped, nid \o "_page", 0, Len(stripped),
                 merge_metadata(md, [chunk_index |-> 0, total_chunks |-> 1,
                                     chunking_strategy |-> "page"]),
                 estimate_tokens(stripped))>>)

(* _recursive_chunk *)

\* if len(current) + len(split) <= self.chunk_size
fits(current, piece) == Len(current) + Len(piece) <= chunk_size

\* the loop over enumerate(splits) and the final "if current": i is 0-based
RECURSIVE merge_splits(_, _, _, _, _)
merge_splits(splits, separator, i, current, merged) ==
    IF i >= Len(splits)
    THEN IF current # <<>> THEN Append(merged, current) ELSE merged
    ELSE LET piece == IF i < Len(splits) - 1
                      THEN splits[i + 1] \o separator
                      ELSE splits[i + 1]
         IN  IF fits(current, piece)
             THEN merge_splits(splits, separator, i + 1, current \o piece, merged)
             ELSE merge_splits(splits, separator, i + 1, piece,
                               IF current # <<>> THEN Append(merged, current)
                               ELSE merged)

\* the pieces of a split with the separator added back, the empty ones left out
pieces(chunk, separator) ==
    LET splits == split(chunk, separator)
    IN  SelectSeq([i \in 1..Len(splits) |->
                      IF i < Len(splits) THEN splits[i] \o separator ELSE splits[i]],
                  LAMBDA piece : piece # <<>>)

\* a pass that splits every chunk on the separator and merges nothing back
RECURSIVE split_round_unmerged(_, _)
split_round_unmerged(current_chunks, separator) ==
    IF current_chunks = <<>> THEN <<>>
    ELSE pieces(Head(current_chunks), separator)
             \o split_round_unmerged(Tail(current_chunks), separator)

\* one pass of "for chunk in current_chunks" for one separator
RECURSIVE split_round(_, _)
split_round(current_chunks, separator) ==
    IF current_chunks = <<>> THEN <<>>
    ELSE LET chunk == Head(current_chunks)
             here == IF Len(chunk) <= chunk_size THEN <<chunk>>
                     ELSE merge_splits(split(chunk, separator), separator, 0, <<>>, <<>>)
         IN  here \o split_round(Tail(current_chunks), separator)

all_small(cs) == \A i \in 1..Len(cs) : Len(cs[i]) <= chunk_size

\* the pass calls chunk.split(separator) on a chunk over the limit
round_raises(current_chunks, separator) ==
    split_raises(separator) /\ ~all_small(current_chunks)

\* "for separator in self.separators" from the k-th separator on (k is 1-based)
RECURSIVE separator_loop(_, _)
separator_loop(current_chunks, k) ==
    IF k > Len(separators) THEN Returned(current_chunks)
    ELSE IF round_raises(current_chunks, separators[k]) THEN Raised("ValueError")
    ELSE LET next_chunks == split_round(current_chunks, separators[k])
         IN  IF all_small(next_chunks) THEN Returned(next_chunks)
             ELSE separator_loop(next_chunks, k + 1)

\* "for i, chunk_text in enumerate(current_chunks)": i is 0-based
RECURSIVE build_recursive(_, _, _, _, _, _)
build_recursive(t, md, nid, current_chunks, i, position) ==
    IF i >= Len(current_chunks) THEN <<>>
    ELSE LET chunk_text == strip(current_chunks[i + 1])
         IN  IF chunk_text = <<>>
             THEN build_recursive(t, md, nid, current_chunks, i + 1, position)
             ELSE LET found == find(t, chunk_text, position)
                      start_char == IF found = -1 THEN position ELSE found
                      end_char == start_char + Len(chunk_text)
                  IN  <<TextChunk(chunk_text, nid \o "_chunk_" \o ToString(i),
                            start_char, end_char,
                            merge_metadata(md, [chunk_index |-> i,
                                total_chunks |-> Len(current_chunks),
                                chunking_strategy |-> "recursive"]),
                            estimate_tokens(chunk_text))>>
                      \o build_recursive(t, md, nid, current_chunks, i + 1, end_char)

recursive_chunk(t, md, nid) ==
    LET r == separator_loop(<<t>>, 1)
    IN  IF r.exc # "none" THEN r
        ELSE Returned(build_recursive(t, md, nid, r.chunks, 0, 0))

(* _semantic_chunk *)

\* chunk_text is a local that is unbound until the first flush assigns it
Unbound == [bound |-> FALSE, value |-> <<>>]
Bound(v) == [bound |-> TRUE, value |-> v]

semantic_chunk_record(md, nid, chunk_text, current_start, idx) ==
    TextChunk(chunk_text, nid \o "_chunk_" \o ToString(idx),
        current_start, current_start + Len(chunk_text),
        merge_metadata(md, [chunk_index |-> idx, chunking_strategy |-> "semantic"]),
        estimate_tokens(chunk_text))

\* the buffer test with the buffer's own length forgotten
sentence_fits_ignoring_buffer(current_chunk, sentence) ==
    Len(sentence) <= chunk_size

\* the buffer test with < for <=
sentence_fits_strictly(current_chunk, sentence) ==
    Len(current_chunk) + Len(sentence) < chunk_size

\* if len(current_chunk) + len(sentence) <= self.chunk_size
sentence_fits(current_chunk, sentence) ==
    Len(current_chunk) + Len(sentence) <= chunk_size

\* "for sentence in sentences" from the k-th sentence on (k is 1-based), then
\* the flush of the last buffer
RECURSIVE semantic_loop(_, _, _, _, _, _, _, _, _)
semantic_loop(md, nid, sentences, k, current_chunk, current_start, idx, chunk_text, out) ==
    IF k > Len(sentences)
    THEN IF current_chunk # <<>>
         THEN Returned(Append(out, semantic_chunk_record(md, nid,
                  strip(current_chunk), current_start, idx)))
         ELSE Returned(out)
    ELSE LET sentence == sentences[k]
         IN  IF sentence_fits(current_chunk, sentence)
             THEN semantic_loop(md, nid, sentences, k + 1,
                      current_chunk \o sentence \o <<" ">>, current_start, idx,
                      chunk_text, out)
             ELSE LET flush == current_chunk # <<>>
                      ct == IF flush THEN Bound(strip(current_chunk)) ELSE chunk_text
                  IN  IF ~ct.bound THEN Raised("UnboundLocalError")
                      ELSE semantic_loop(md, nid, sentences, k + 1,
                               sentence \o <<" ">>,
                               current_start + Len(ct.value) + 1,
                               IF flush THEN idx + 1 ELSE idx,
                               ct,
                               IF flush
                               THEN Append(out, semantic_chunk_record(md, nid,
                                        ct.value, current_start, idx))
                               ELSE out)

semantic_chunk(t, md, nid) ==
    semantic_loop(md, nid, re_split_sentences(t), 1, <<>>, 0, 0, Unbound, <<>>)

(* _fixed_chunk: one iteration of "while start < len(text)" *)

LookBack == 50
BreakChars == {" ", ".", "!", "?", "\n"}

\* the window end after "Look back for a good break point"
window_end(t, from, end) ==
    IF ~(end < Len(t)) THEN [exc |-> "none", end |-> end]
    ELSE LET n == Min(LookBack, end - from)
             stops == {i \in 0..(n - 1) :
                          \/ index_raises(t, end - i)
                          \/ index(t, end - i) \in BreakChars}
         IN  IF stops = {} THEN [exc |-> "none", end |-> end]
             ELSE LET i == SetMin(stops)
                  IN  IF index_raises(t, end - i)
                      THEN [exc |-> "IndexError", end |-> end]
                      ELSE [exc |-> "none", end |-> end - i + 1]

\* the fixed record with the total_chunks key of the recursive record
fixed_chunk_record_with_total(md, nid, chunk_text, from, end, idx) ==
    TextChunk(chunk_text, nid \o "_chunk_" \o ToString(idx), from, end,
        merge_metadata(md, [chunk_index |-> idx, total_chunks |-> idx + 1,
                            chunking_strategy |-> "fixed"]),
        estimate_tokens(chunk_text))

fixed_chunk_record(md, nid, chunk_text, from, end, idx) ==
    TextChunk(chunk_text, nid \o "_chunk_" \o ToString(idx), from, end,
        merge_metadata(md, [chunk_index |-> idx, chunking_strategy |-> "fixed"]),
        estimate_tokens(chunk_text))

\* the cursor moved back one character too far
next_start_off_by_one(end) == end - chunk_overlap - 1

\* the cursor left at the end of the window
next_start_without_overlap(end) == end

\* start = end - self.chunk_overlap
\* the cursor moved one character past the overlap
next_start_skipping(end) == end - chunk_overlap + 1

next_start(end) == end - chunk_overlap

---------------------------------------------------------------------------
(* The call *)

\* the state of the parts of the program a specification does not run
NoCalls == calls = <<>>
NoAgent == max_history = 0 /\ conversation_history = <<>> /\ last_query = "none"
NoIngest ==
    /\ dry_run = FALSE
    /\ batch_size = 1
    /\ next_note = 0
    /\ ingest_pc = "done"
    /\ notes = <<>>
    /\ all_chunks = <<>>
    /\ embeddings = <<>>
    /\ chunk_embedding_pairs = <<>>
    /\ upserted = <<>>
    /\ upsert_calls = 0
    /\ stats = <<>>
    /\ ingest_exc = "none"

Init ==
    /\ chunk_size \in 1..MaxChunkSize
    /\ chunk_overlap \in 0..MaxOverlap
    /\ strategy \in Strategies
    /\ text \in Texts
    /\ metadata \in MetadataInputs
    /\ note_id \in NoteIdInputs
    /\ pc = "call"
    /\ start = 0
    /\ chunk_index = 0
    /\ chunks = <<>>
    /\ exc = "none"
    /\ NoCalls /\ NoAgent /\ NoIngest

Finish(r) ==
    /\ pc' = "done"
    /\ chunks' = r.chunks
    /\ exc' = r.exc
    /\ UNCHANGED <<chunk_size, chunk_overlap, strategy, text, metadata, note_id,
                   start, chunk_index>>
    /\ UNCHANGED <<callVars, agentVars, ingestVars>>

PageChunk ==
    /\ pc = "call"
    /\ strategy = "page"
    /\ Finish(page_chunk(text, metadata_or_default, note_id_or_default))

RecursiveChunk ==
    /\ pc = "call"
    /\ strategy = "recursive"
    /\ Finish(recursive_chunk(text, metadata_or_default, note_id_or_default))

SemanticChunk ==
    /\ pc = "call"
    /\ strategy = "semantic"
    /\ Finish(semantic_chunk(text, metadata_or_default, note_id_or_default))

\* the else branch falling back to the default strategy of the settings
UnknownStrategyAsRecursive ==
    /\ pc = "call"
    /\ strategy \notin {"page", "recursive", "fixed", "semantic"}
    /\ Finish(recursive_chunk(text, metadata_or_default, note_id_or_default))

\* the else branch of the dispatch: a warning, then _page_chunk
UnknownStrategy ==
    /\ pc = "call"
    /\ strategy \notin {"page", "recursive", "fixed", "semantic"}
    /\ Finish(page_chunk(text, metadata_or_default, note_id_or_default))

\* _fixed_chunk up to the first test of the while condition
FixedChunkEnter ==
    /\ pc = "call"
    /\ strategy = "fixed"
    /\ pc' = IF 0 < Len(text) THEN "fixed_loop" ELSE "done"
    /\ UNCHANGED <<chunk_size, chunk_overlap, strategy, text, metadata, note_id,
                   start, chunk_index, chunks, exc>>
    /\ UNCHANGED <<callVars, agentVars, ingestVars>>

\* one iteration of the while loop, up to the next test of its condition
FixedChunkStep ==
    /\ pc = "fixed_loop"
    /\ Len(chunks) < MaxChunks
    /\ LET w == window_end(text, start, start + chunk_size)
           chunk_text == strip(slice(text, start, w.end))
       IN  IF w.exc # "none"
           THEN /\ pc' = "done"
                /\ exc' = w.exc
                /\ chunks' = <<>>
                /\ UNCHANGED <<start, chunk_index>>
           ELSE /\ exc' = exc
                /\ chunks' = IF chunk_text # <<>>
                             THEN Append(chunks, fixed_chunk_record(
                                      metadata_or_default, note_id_or_default,
                                      chunk_text, start, w.end, chunk_index))
                             ELSE chunks
                /\ chunk_index' = IF chunk_text # <<>> THEN chunk_index + 1
                                  ELSE chunk_index
                /\ start' = next_start(w.end)
                /\ pc' = IF start' >= Len(text) THEN "done" ELSE "fixed_loop"
    /\ UNCHANGED <<chunk_size, chunk_overlap, strategy, text, metadata, note_id>>
    /\ UNCHANGED <<callVars, agentVars, ingestVars>>

Next ==
    \/ PageChunk
    \/ RecursiveChunk
    \/ SemanticChunk
    \/ UnknownStrategy
    \/ FixedChunkEnter
    \/ FixedChunkStep

Spec == Init /\ [][Next]_vars

\* The same call on longer texts over fewer characters, with the optional
\* arguments left out: texts long enough for three or more chunks.
LongInit ==
    /\ chunk_size \in 1..MaxChunkSize
    /\ chunk_overlap \in 0..MaxOverlap
    /\ strategy \in Strategies
    /\ text \in LongTexts
    /\ metadata = None
    /\ note_id = None
    /\ pc = "call"
    /\ start = 0
    /\ chunk_index = 0
    /\ chunks = <<>>
    /\ exc = "none"
    /\ NoCalls /\ NoAgent /\ NoIngest

LongSpec == LongInit /\ [][Next]_vars

\* The same call on texts of spaces, newlines and letters, where a piece cut
\* at a newline can still hold a space.
RoundInit ==
    /\ chunk_size \in 1..MaxChunkSize
    /\ chunk_overlap \in 0..MaxOverlap
    /\ strategy \in Strategies
    /\ text \in RoundTexts
    /\ metadata = None
    /\ note_id = None
    /\ pc = "call"
    /\ start = 0
    /\ chunk_index = 0
    /\ chunks = <<>>
    /\ exc = "none"
    /\ NoCalls /\ NoAgent /\ NoIngest

RoundSpec == RoundInit /\ [][Next]_vars

\* Two callers on one chunker: each holds the locals of its own call, the
\* configuration is the chunker's.  A step is one caller's dispatch to a
\* strategy without a loop over the text's windows, or one iteration of its
\* fixed loop.

\* the dispatch of chunk_text on the strategies that are applied in one step
dispatch(t, md, nid) ==
    CASE strategy = "page" -> page_chunk(t, md, nid)
      [] strategy = "recursive" -> recursive_chunk(t, md, nid)
      [] strategy = "semantic" -> semantic_chunk(t, md, nid)
      [] OTHER -> page_chunk(t, md, nid)

\* one iteration of the while loop of _fixed_chunk on a caller's locals
fixed_iteration(call) ==
    LET w == window_end(call.text, call.start, call.start + chunk_size)
        chunk_text == strip(slice(call.text, call.start, w.end))
        emitted == IF chunk_text # <<>>
                   THEN Append(call.chunks, fixed_chunk_record(<<>>, "unknown",
                            chunk_text, call.start, w.end, call.chunk_index))
                   ELSE call.chunks
    IN  IF w.exc # "none"
        THEN [call EXCEPT !.pc = "done", !.exc = w.exc, !.chunks = <<>>]
        ELSE [call EXCEPT !.chunks = emitted,
                          !.chunk_index = IF chunk_text # <<>> THEN @ + 1 ELSE @,
                          !.start = next_start(w.end),
                          !.pc = IF next_start(w.end) >= Len(call.text)
                                 THEN "done" ELSE "fixed_loop"]

NewCall(t) ==
    [text |-> t, pc |-> "call", start |-> 0, chunk_index |-> 0,
     chunks |-> <<>>, exc |-> "none"]

MaxCallChunks(c) == 2 * Len(calls[c].text) + chunk_overlap + 1

ConcurrentInit ==
    /\ chunk_size \in 1..MaxChunkSize
    /\ chunk_overlap \in 0..MaxOverlap
    /\ strategy \in Strategies
    /\ calls \in [Callers -> {NewCall(t) : t \in CallTexts}]
    /\ text = <<>>
    /\ metadata = None
    /\ note_id = None
    /\ pc = "done"
    /\ start = 0
    /\ chunk_index = 0
    /\ chunks = <<>>
    /\ exc = "none"
    /\ NoAgent /\ NoIngest

OtherThanCalls ==
    <<chunk_size, chunk_overlap, strategy, text, metadata, note_id,
      pc, start, chunk_index, chunks, exc, agentVars, ingestVars>>

ConcurrentDispatch(c) ==
    /\ calls[c].pc = "call"
    /\ strategy # "fixed"
    /\ LET r == dispatch(calls[c].text, <<>>, "unknown")
       IN  calls' = [calls EXCEPT ![c].pc = "done", ![c].chunks = r.chunks,
                                  ![c].exc = r.exc]
    /\ UNCHANGED OtherThanCalls

ConcurrentFixedEnter(c) ==
    /\ calls[c].pc = "call"
    /\ strategy = "fixed"
    /\ calls' = [calls EXCEPT ![c].pc = IF 0 < Len(calls[c].text)
                                        THEN "fixed_loop" ELSE "done"]
    /\ UNCHANGED OtherThanCalls

\* the loop with its cursor kept on the chunker object instead of in a local
ConcurrentFixedStepSharedCursor(c) ==
    /\ calls[c].pc = "fixed_loop"
    /\ Len(calls[c].chunks) < MaxCallChunks(c)
    /\ LET after == fixed_iteration([calls[c] EXCEPT !.start = start])
       IN  /\ calls' = [calls EXCEPT ![c] = after]
           /\ start' = after.start
    /\ UNCHANGED <<chunk_size, chunk_overlap, strategy, text, metadata, note_id,
                   pc, chunk_index, chunks, exc, agentVars, ingestVars>>

ConcurrentFixedStep(c) ==
    /\ calls[c].pc = "fixed_loop"
    /\ Len(calls[c].chunks) < MaxCallChunks(c)
    /\ calls' = [calls EXCEPT ![c] = fixed_iteration(calls[c])]
    /\ UNCHANGED OtherThanCalls

ConcurrentNext ==
    \E c \in Callers :
        \/ ConcurrentDispatch(c)
        \/ ConcurrentFixedEnter(c)
        \/ ConcurrentFixedStep(c)

ConcurrentSpec == ConcurrentInit /\ [][ConcurrentNext]_vars

\* the chunker variables in a specification that makes no call of chunk_text
NoChunker ==
    /\ chunk_size = 1
    /\ chunk_overlap = 0
    /\ strategy = "page"
    /\ text = <<>>
    /\ metadata = None
    /\ note_id = None
    /\ pc = "done"
    /\ start = 0
    /\ chunk_index = 0
    /\ chunks = <<>>
    /\ exc = "none"

(* RAGAgent: the conversation history *)

Message(role, content) == [role |-> role, content |-> content]

\* _update_history
update_history(history, user_message, assistant_message) ==
    LET appended == history \o <<Message("user", user_message),
                                  Message("assistant", assistant_message)>>
    IN  IF Len(appended) > max_history * 2
        THEN slice(appended, 0 - (max_history * 2), Len(appended))
        ELSE appended

AgentInit ==
    /\ max_history \in 0..MaxHistory
    /\ conversation_history = <<>>
    /\ last_query = "none"
    /\ NoChunker /\ NoCalls /\ NoIngest

\* A call of query, or of chat, which calls query with the same question.
\* query: retriever.retrieve or agent.run raises; the except clause re-raises
QueryRaises ==
    /\ \E question \in Questions : last_query' = "raised"
    /\ UNCHANGED <<max_history, conversation_history>>
    /\ UNCHANGED <<chunkerVars, callVars, ingestVars>>

\* query: no retrieval results, the no-context message is returned
QueryNoContext ==
    /\ \E question \in Questions : last_query' = "no_context"
    /\ UNCHANGED <<max_history, conversation_history>>
    /\ UNCHANGED <<chunkerVars, callVars, ingestVars>>

\* query: the agent answers and the history is updated
QueryAnswered ==
    /\ Len(conversation_history) < MaxMessages
    /\ \E question \in Questions, answer \in Answers :
           conversation_history' = update_history(conversation_history, question, answer)
    /\ last_query' = "answered"
    /\ UNCHANGED max_history
    /\ UNCHANGED <<chunkerVars, callVars, ingestVars>>

\* clear_history, and reset, which calls it
ClearHistory ==
    /\ conversation_history' = <<>>
    /\ last_query' = "cleared"
    /\ UNCHANGED max_history
    /\ UNCHANGED <<chunkerVars, callVars, ingestVars>>

AgentNext ==
    \/ QueryRaises
    \/ QueryNoContext
    \/ QueryAnswered
    \/ ClearHistory

AgentSpec == AgentInit /\ [][AgentNext]_vars

(* IngestionPipeline.ingest_vault: parse, chunk, embed, store *)

\* a parsed note: the number of chunks chunk_note gives for it, or that
\* chunk_note raises on it
Note(n_chunks, raises) == [n_chunks |-> n_chunks, raises |-> raises]
NoteInputs ==
    {Note(n, FALSE) : n \in 0..MaxNoteChunks} \cup {Note(0, TRUE)}
NoteLists == UNION {[1..n -> NoteInputs] : n \in 0..MaxNotes}

\* the chunks of the i-th note
chunks_of(i) == [k \in 1..notes[i].n_chunks |-> [note |-> i, index |-> k - 1]]

embedding_of(chunk) == [of |-> chunk]

\* upsert_chunks: batch_size = 100
UpsertBatchSize == 100

NewStats ==
    [notes_parsed |-> 0, notes_skipped |-> 0, chunks_created |-> 0,
     embeddings_generated |-> 0, vectors_stored |-> 0]

IngestInit ==
    /\ dry_run \in BOOLEAN
    /\ batch_size \in 1..MaxBatchSize
    /\ next_note = 0
    /\ ingest_pc = "parse"
    /\ notes = <<>>
    /\ all_chunks = <<>>
    /\ embeddings = <<>>
    /\ chunk_embedding_pairs = <<>>
    /\ upserted = <<>>
    /\ upsert_calls = 0
    /\ stats = NewStats
    /\ ingest_exc = "none"
    /\ NoChunker /\ NoCalls /\ NoAgent

\* the except clause of ingest_vault: the error is logged and raised again
IngestRaises(step) ==
    /\ ingest_pc' = "done"
    /\ ingest_exc' = step

\* Step 1: parse_vault returns the notes; with no notes the call returns
ParseVault ==
    /\ ingest_pc = "parse"
    /\ \E parsed \in NoteLists :
           /\ notes' = parsed
           /\ stats' = [stats EXCEPT !.notes_parsed = Len(parsed)]
           /\ ingest_pc' = IF parsed = <<>> THEN "done" ELSE "chunk"
    /\ UNCHANGED <<dry_run, batch_size, next_note, all_chunks, embeddings,
                   chunk_embedding_pairs, upserted, upsert_calls, ingest_exc>>
    /\ UNCHANGED <<chunkerVars, callVars, agentVars>>

\* Step 1: parse_vault raises
ParseVaultRaises ==
    /\ ingest_pc = "parse"
    /\ IngestRaises("parse")
    /\ UNCHANGED <<dry_run, batch_size, next_note, notes, all_chunks, embeddings,
                   chunk_embedding_pairs, upserted, upsert_calls, stats>>
    /\ UNCHANGED <<chunkerVars, callVars, agentVars>>

\* Step 2: one iteration of "for note in notes"
ChunkNote ==
    /\ ingest_pc = "chunk"
    /\ next_note < Len(notes)
    /\ IF notes[next_note + 1].raises
       THEN /\ IngestRaises("chunk")
            /\ UNCHANGED <<next_note, all_chunks>>
       ELSE /\ all_chunks' = all_chunks \o chunks_of(next_note + 1)
            /\ next_note' = next_note + 1
            /\ UNCHANGED <<ingest_pc, ingest_exc>>
    /\ UNCHANGED <<dry_run, batch_size, notes, embeddings,
                   chunk_embedding_pairs, upserted, upsert_calls, stats>>
    /\ UNCHANGED <<chunkerVars, callVars, agentVars>>

\* Step 2: the loop has ended, the chunks are counted
ChunkingDone ==
    /\ ingest_pc = "chunk"
    /\ next_note = Len(notes)
    /\ stats' = [stats EXCEPT !.chunks_created = Len(all_chunks)]
    /\ ingest_pc' = "embed"
    /\ UNCHANGED <<dry_run, batch_size, next_note, notes, all_chunks, embeddings,
                   chunk_embedding_pairs, upserted, upsert_calls, ingest_exc>>
    /\ UNCHANGED <<chunkerVars, callVars, agentVars>>

\* Step 3, embed_batch: one batch of at most batch_size texts is embedded
EmbedBatch ==
    /\ ingest_pc = "embed"
    /\ Len(embeddings) < Len(all_chunks)
    /\ LET batch == SubSeq(all_chunks, Len(embeddings) + 1,
                           Min(Len(embeddings) + batch_size, Len(all_chunks)))
       IN  embeddings' = embeddings \o [i \in 1..Len(batch) |-> embedding_of(batch[i])]
    /\ UNCHANGED <<dry_run, batch_size, next_note, ingest_pc, notes, all_chunks,
                   chunk_embedding_pairs, upserted, upsert_calls, stats, ingest_exc>>
    /\ UNCHANGED <<chunkerVars, callVars, agentVars>>

\* Step 3, embed_batch: the embedder raises on a batch
EmbedBatchRaises ==
    /\ ingest_pc = "embed"
    /\ Len(embeddings) < Len(all_chunks)
    /\ IngestRaises("embed")
    /\ UNCHANGED <<dry_run, batch_size, next_note, notes, all_chunks, embeddings,
                   chunk_embedding_pairs, upserted, upsert_calls, stats>>
    /\ UNCHANGED <<chunkerVars, callVars, agentVars>>

\* the end of Step 3 that stores whatever dry_run says
EmbedChunksDoneThenStore ==
    /\ ingest_pc = "embed"
    /\ Len(embeddings) >= Len(all_chunks)
    /\ chunk_embedding_pairs' =
           [i \in 1..Min(Len(all_chunks), Len(embeddings)) |->
               <<all_chunks[i], embeddings[i]>>]
    /\ stats' = [stats EXCEPT !.embeddings_generated = Len(chunk_embedding_pairs')]
    /\ ingest_pc' = "store"
    /\ UNCHANGED <<dry_run, batch_size, next_note, notes, all_chunks, embeddings,
                   upserted, upsert_calls, ingest_exc>>
    /\ UNCHANGED <<chunkerVars, callVars, agentVars>>

\* Step 3: embed_chunks zips chunks and embeddings; then "if not dry_run"
EmbedChunksDone ==
    /\ ingest_pc = "embed"
    /\ Len(embeddings) >= Len(all_chunks)
    /\ chunk_embedding_pairs' =
           [i \in 1..Min(Len(all_chunks), Len(embeddings)) |->
               <<all_chunks[i], embeddings[i]>>]
    /\ stats' = [stats EXCEPT !.embeddings_generated = Len(chunk_embedding_pairs')]
    /\ ingest_pc' = IF ~dry_run THEN "store" ELSE "done"
    /\ UNCHANGED <<dry_run, batch_size, next_note, notes, all_chunks, embeddings,
                   upserted, upsert_calls, ingest_exc>>
    /\ UNCHANGED <<chunkerVars, callVars, agentVars>>

\* Step 4, upsert_chunks: the points are written in batches of 100; failing is
\* 0 when no batch fails, or the number of the batch on which client.upsert
\* raises after the batches before it were written
UpsertChunks ==
    /\ ingest_pc = "store"
    /\ upsert_calls' = upsert_calls + 1
    /\ LET points == [i \in 1..Len(chunk_embedding_pairs) |->
                         [chunk |-> chunk_embedding_pairs[i][1],
                          vector |-> chunk_embedding_pairs[i][2]]]
           batches == (Len(points) + UpsertBatchSize - 1) \div UpsertBatchSize
       IN  \E failing \in 0..batches :
               IF failing = 0
               THEN /\ upserted' = upserted \o points
                    /\ stats' = [stats EXCEPT !.vectors_stored = Len(points)]
                    /\ ingest_pc' = "done"
                    /\ UNCHANGED ingest_exc
               ELSE /\ upserted' = upserted \o
                           SubSeq(points, 1, (failing - 1) * UpsertBatchSize)
                    /\ IngestRaises("store")
                    /\ UNCHANGED stats
    /\ UNCHANGED <<dry_run, batch_size, next_note, notes, all_chunks, embeddings,
                   chunk_embedding_pairs>>
    /\ UNCHANGED <<chunkerVars, callVars, agentVars>>

IngestNext ==
    \/ ParseVault
    \/ ParseVaultRaises
    \/ ChunkNote
    \/ ChunkingDone
    \/ EmbedBatch
    \/ EmbedBatchRaises
    \/ EmbedChunksDone
    \/ UpsertChunks

IngestSpec == IngestInit /\ [][IngestNext]_vars

\* the interpreter keeps running a loop that has not exited
FairSpec == Spec /\ WF_vars(Next)

\* The call of the worked example: "Hello world. This is a test." and its
\* prefixes, with chunk size 15 and overlap 5.
ScenarioText ==
    <<"H", "e", "l", "l", "o", " ", "w", "o", "r", "l", "d", ".", " ",
      "T", "h", "i", "s", " ", "i", "s", " ", "a", " ", "t", "e", "s", "t", ".">>

ScenarioInit ==
    /\ chunk_size = 15
    /\ chunk_overlap = 5
    /\ strategy \in Strategies
    /\ text \in {SubSeq(ScenarioText, 1, n) : n \in 0..Len(ScenarioText)}
    /\ metadata = None
    /\ note_id = None
    /\ pc = "call"
    /\ start = 0
    /\ chunk_index = 0
    /\ chunks = <<>>
    /\ exc = "none"
    /\ NoCalls /\ NoAgent /\ NoIngest

ScenarioSpec == ScenarioInit /\ [][Next]_vars

\* The construction of the chunker before the call.  The configured strategy
\* name reaches TextChunker.__init__ either through Settings(), which
\* validates the value read from the environment against the Literal of the
\* field chunking_strategy, or as an attribute of a settings object handed to
\* the constructor, which is read as it is.
SettingsStrategies == {"recursive", "fixed", "semantic"}

SettingsInit ==
    /\ chunk_size \in 1..MaxChunkSize
    /\ chunk_overlap \in 0..MaxOverlap
    /\ strategy \in Strategies
    /\ text \in Texts
    /\ metadata = None
    /\ note_id = None
    /\ pc \in {"settings_env", "settings_object"}
    /\ start = 0
    /\ chunk_index = 0
    /\ chunks = <<>>
    /\ exc = "none"
    /\ NoCalls /\ NoAgent /\ NoIngest

\* settings or Settings(): the settings are built from the environment
SettingsFromEnv ==
    /\ pc = "settings_env"
    /\ IF strategy \in SettingsStrategies
       THEN pc' = "call" /\ exc' = exc
       ELSE pc' = "done" /\ exc' = "ValidationError"
    /\ UNCHANGED <<chunk_size, chunk_overlap, strategy, text, metadata, note_id,
                   start, chunk_index, chunks>>
    /\ UNCHANGED <<callVars, agentVars, ingestVars>>

\* settings or Settings(): the caller's settings object is taken as it is
SettingsObject ==
    /\ pc = "settings_object"
    /\ pc' = "call"
    /\ UNCHANGED <<chunk_size, chunk_overlap, strategy, text, metadata, note_id,
                   start, chunk_index, chunks, exc>>
    /\ UNCHANGED <<callVars, agentVars, ingestVars>>

SettingsNext ==
    \/ SettingsFromEnv
    \/ SettingsObject
    \/ Next

SettingsSpec == SettingsInit /\ [][SettingsNext]_vars

---------------------------------------------------------------------------
(* Vocabulary of the properties *)

Returns == pc = "done" /\ exc = "none"

Contents == [i \in 1..Len(chunks) |-> chunks[i].content]

\* the length of the longest maximal run of non-whitespace characters
LongestToken(t) ==
    LET runs == {<<i, j>> \in (1..Len(t)) \X (1..Len(t)) :
                    i <= j /\ \A k \in i..j : t[k] \notin Whitespace}
    IN  IF runs = {} THEN 0 ELSE SetMax({r[2] - r[1] + 1 : r \in runs})

\* the length of the longest sentence the semantic strategy works on
LongestSentence(t) ==
    LET ss == re_split_sentences(t)
    IN  SetMax({Len(ss[i]) : i \in 1..Len(ss)})

NonWhitespace(s) == SelectSeq(s, LAMBDA c : c \notin Whitespace)

RECURSIVE Concat(_)
Concat(ss) == IF ss = <<>> THEN <<>> ELSE Head(ss) \o Concat(Tail(ss))

\* no separator of the recursive strategy but the empty one occurs in t
ContainsNoSeparator(t) ==
    \A k \in 1..Len(separators) :
        separators[k] # <<>> => find(t, separators[k], 0) = -1

\* the part of the text the k-th chunk's source window covers, as a set of
\* 0-based positions
Window(k) ==
    {p \in 0..(Len(text) - 1) : chunks[k].start_char <= p /\ p < chunks[k].end_char}

\* the sentences of t joined by single spaces
RECURSIVE Join(_)
Join(ss) ==
    IF Len(ss) <= 1 THEN Concat(ss)
    ELSE Head(ss) \o <<" ">> \o Join(Tail(ss))
JoinedSentences(t) == Join(re_split_sentences(t))

AllWithinSize == \A i \in 1..Len(chunks) : Len(chunks[i].content) <= chunk_size

---------------------------------------------------------------------------
(* Properties *)

\* C1: chunk_text is total: whatever the text, the metadata and the strategy,
\* with max_chunk_size >= 1 a finished call has returned a sequence of chunks
\* and has raised no exception.
ChunkTextTotal == pc = "done" => exc = "none"

\* C2: for the empty text chunk_text returns the empty sequence under every
\* strategy.
EmptyTextNoChunks ==
    (pc = "done" /\ text = <<>>) => (exc = "none" /\ chunks = <<>>)

\* C3: the content of every returned chunk is non-empty and has no leading or
\* trailing whitespace.
ContentTrimmedNonEmpty ==
    Returns => \A i \in 1..Len(chunks) :
                   /\ chunks[i].content # <<>>
                   /\ strip(chunks[i].content) = chunks[i].content

\* C4: every returned chunk satisfies 0 <= start_char <= end_char <= len(text),
\* text being the untrimmed input.
OffsetsWithinText ==
    Returns => \A i \in 1..Len(chunks) :
                   /\ 0 <= chunks[i].start_char
                   /\ chunks[i].start_char <= chunks[i].end_char
                   /\ chunks[i].end_char <= Len(text)

\* C5: with 0 <= overlap < max_chunk_size every completed iteration of the fixed
\* loop moves the cursor forward (so the loop reaches the end of the text).
FixedForwardProgress ==
    [][(pc = "fixed_loop" /\ chunk_overlap < chunk_size /\ exc' = "none")
           => start' > start]_vars

\* C6: fixed strategy: when no token of the text is longer than max_chunk_size,
\* every returned chunk has len(content) <= max_chunk_size.
FixedSizeBound ==
    (Returns /\ strategy = "fixed" /\ LongestToken(text) <= chunk_size)
        => AllWithinSize

\* C7: recursive strategy: when no token of the text is longer than
\* max_chunk_size, the call returns and every returned chunk has
\* len(content) <= max_chunk_size.
RecursiveSizeBound ==
    (pc = "done" /\ strategy = "recursive" /\ LongestToken(text) <= chunk_size)
        => (exc = "none" /\ AllWithinSize)

\* C8 as stated: semantic strategy: when no token of the text is longer than
\* max_chunk_size, the call returns and every returned chunk has
\* len(content) <= max_chunk_size.
SemanticSizeBound ==
    (pc = "done" /\ strategy = "semantic" /\ LongestToken(text) <= chunk_size)
        => (exc = "none" /\ AllWithinSize)

\* C8 amended: semantic strategy: when no sentence of the text (a piece of the
\* split after . ! ? followed by whitespace) is longer than max_chunk_size, the
\* call returns and every returned chunk has len(content) <= max_chunk_size.
SemanticSizeBoundBySentence ==
    (pc = "done" /\ strategy = "semantic" /\ LongestSentence(text) <= chunk_size)
        => (exc = "none" /\ AllWithinSize)

\* C8 witness: a semantic call on sentences within the limit that flushed a
\* full buffer because the next sentence did not fit.
SemanticFlushWitness ==
    /\ pc = "done"
    /\ strategy = "semantic"
    /\ LongestSentence(text) <= chunk_size
    /\ Len(re_split_sentences(text)) >= 2
    /\ Len(chunks) >= 2
    /\ Len(chunks[1].content) = chunk_size
    /\ chunks[2].content # <<>>

\* C9: when the text holds a unit with no split point below the limit (a token
\* for recursive and fixed, a sentence for semantic), the call still returns
\* and no non-whitespace text is dropped.
OversizedUnitEmitted ==
    (/\ pc = "done"
     /\ \/ strategy \in {"recursive", "fixed"} /\ LongestToken(text) > chunk_size
        \/ strategy = "semantic" /\ LongestSentence(text) > chunk_size)
        => /\ exc = "none"
           /\ Len(NonWhitespace(Concat(Contents))) >= Len(NonWhitespace(text))

\* C10: the k-th returned chunk has chunk_index k (counting from 0), with no
\* gaps, under every strategy.
ChunkIndexSequential ==
    Returns => \A k \in 1..Len(chunks) : chunks[k].metadata.chunk_index = k - 1

\* C11: on every call that returns, start_char is non-decreasing along the
\* returned sequence, under every strategy.
StartCharNonDecreasing ==
    Returns => \A k \in 1..(Len(chunks) - 1) :
                   chunks[k + 1].start_char >= chunks[k].start_char

\* C11 witness: a fixed call with overlap that returned three or more chunks,
\* one of them from a window whose end was pulled back to a boundary.
StartCharWitness ==
    /\ Returns
    /\ strategy = "fixed"
    /\ chunk_overlap >= 1
    /\ Len(chunks) >= 3
    /\ \E k \in 1..(Len(chunks) - 1) :
           chunks[k].end_char - chunks[k].start_char < chunk_size

\* C12: under page, chunk_text returns exactly one chunk with content
\* text.strip(), chunk_index 0 and total_chunks 1 when text.strip() is
\* non-empty, and no chunk when it is empty, whatever max_chunk_size and overlap.
PageSingleChunk ==
    (pc = "done" /\ strategy = "page") =>
        /\ exc = "none"
        /\ IF strip(text) = <<>> THEN chunks = <<>>
           ELSE /\ Len(chunks) = 1
                /\ chunks[1].content = strip(text)
                /\ chunks[1].metadata.chunk_index = 0
                /\ chunks[1].metadata.total_chunks = 1

\* C12 witness: a page call on a text with whitespace around a body longer
\* than max_chunk_size.
PageSingleChunkWitness ==
    /\ pc = "done"
    /\ strategy = "page"
    /\ Len(chunks) = 1
    /\ text # strip(text)
    /\ Len(strip(text)) > chunk_size

\* C13: a chunker whose strategy is none of page, recursive, fixed, semantic
\* does not raise and returns, for every text, metadata and document id, the
\* chunk sequence of the page strategy, chunking_strategy = "page" included.
UnknownStrategyIsPage ==
    (pc = "done" /\ strategy \notin {"page", "recursive", "fixed", "semantic"}) =>
        /\ exc = "none"
        /\ chunks = page_chunk(text, metadata_or_default, note_id_or_default).chunks
        /\ \A k \in 1..Len(chunks) : chunks[k].metadata.chunking_strategy = "page"

\* C13 witness: a call under an unknown strategy, with metadata and a document
\* id, on a text the recursive strategy would split or fail on.
UnknownStrategyWitness ==
    /\ pc = "done"
    /\ strategy = "bogus"
    /\ metadata # None
    /\ note_id # None
    /\ Len(chunks) = 1
    /\ Len(chunks[1].content) > chunk_size

\* C14: no content loss for page and recursive: the call returns, and the
\* contents of the returned chunks, concatenated in order with all whitespace
\* removed, are exactly the non-whitespace characters of text.strip().
NoContentLoss ==
    (pc = "done" /\ strategy \in {"page", "recursive"}) =>
        /\ exc = "none"
        /\ NonWhitespace(Concat(Contents)) = NonWhitespace(strip(text))

\* C15: recursive on a text longer than max_chunk_size that holds no
\* separator: the call returns ceil(len(text) / max_chunk_size) chunks, each
\* within max_chunk_size, whose concatenation is the text.
RecursiveCharacterSplit ==
    (/\ pc = "done"
     /\ strategy = "recursive"
     /\ Len(text) > chunk_size
     /\ ContainsNoSeparator(text))
        => /\ exc = "none"
           /\ Len(chunks) = (Len(text) + chunk_size - 1) \div chunk_size
           /\ AllWithinSize
           /\ Concat(Contents) = text

\* C16: fixed on "Hello world. This is a test." with max_chunk_size 15 and
\* overlap 5 returns more than one chunk, every content has at most 15
\* characters, consecutive windows share at most 5 characters, and the windows
\* cover every position of the text.
ScenarioFixedWindows ==
    (pc = "done" /\ strategy = "fixed" /\ text = ScenarioText) =>
        /\ exc = "none"
        /\ Len(chunks) > 1
        /\ \A k \in 1..Len(chunks) : Len(chunks[k].content) <= 15
        /\ \A k \in 1..(Len(chunks) - 1) :
               Cardinality(Window(k) \cap Window(k + 1)) <= 5
        /\ UNION {Window(k) : k \in 1..Len(chunks)} = 0..(Len(text) - 1)

\* C16 witness: the call on the whole example text has returned its chunks.
ScenarioFixedWitness ==
    /\ Returns
    /\ strategy = "fixed"
    /\ text = ScenarioText
    /\ Len(chunks) = 3
    /\ \E k \in 1..2 : Cardinality(Window(k) \cap Window(k + 1)) = 5

\* C17: semantic on a non-blank text whose sentences, joined by single spaces,
\* have total length <= max_chunk_size: exactly one chunk is returned and its
\* content is the sentences in order joined by single spaces, trimmed.
SemanticSingleChunk ==
    (/\ pc = "done"
     /\ strategy = "semantic"
     /\ strip(text) # <<>>
     /\ Len(JoinedSentences(text)) <= chunk_size)
        => /\ exc = "none"
           /\ Len(chunks) = 1
           /\ chunks[1].content = strip(JoinedSentences(text))

\* C17 witness: a semantic call on two or more sentences that exactly fill
\* max_chunk_size when joined, the whitespace between two of them being wider
\* than one space.
SemanticSingleChunkWitness ==
    /\ Returns
    /\ strategy = "semantic"
    /\ Len(re_split_sentences(text)) >= 2
    /\ Len(JoinedSentences(text)) = chunk_size
    /\ \A i \in 1..Len(re_split_sentences(text)) : re_split_sentences(text)[i] # <<>>
    /\ Len(JoinedSentences(text)) < Len(text)
    /\ Len(chunks) = 1

\* C18 as stated: in the fixed strategy each returned chunk's window starts
\* exactly chunk_overlap characters before the end of the previous returned
\* chunk's window.
FixedOverlapExact ==
    (Returns /\ strategy = "fixed") =>
        \A k \in 1..(Len(chunks) - 1) :
            chunks[k + 1].start_char = chunks[k].end_char - chunk_overlap

\* C18: in the fixed strategy each returned chunk's window starts at or after
\* the point chunk_overlap characters before the end of the previous returned
\* chunk's window, and every character of the text between that point and the
\* window's start is whitespace: the two coincide unless windows whose trimmed
\* slice is empty were skipped between the two chunks.
FixedOverlapUpToSkippedWhitespace ==
    (Returns /\ strategy = "fixed") =>
        \A k \in 1..(Len(chunks) - 1) :
            /\ chunks[k + 1].start_char >= chunks[k].end_char - chunk_overlap
            /\ \A p \in (chunks[k].end_char - chunk_overlap)..(chunks[k + 1].start_char - 1) :
                   (0 <= p /\ p < Len(text)) => text[p + 1] \in Whitespace

FixedOverlapWitness ==
    /\ Returns
    /\ strategy = "fixed"
    /\ chunk_overlap >= 1
    /\ \E k \in 1..(Len(chunks) - 1) :
           chunks[k + 1].start_char = chunks[k].end_char - chunk_overlap
    /\ \E k \in 1..(Len(chunks) - 1) :
           chunks[k + 1].start_char > chunks[k].end_char - chunk_overlap

\* the document id a chunk id is derived from
DocumentId == IF note_id = None THEN "unknown" ELSE Value(note_id)

\* C19: within one returned result the chunk ids are pairwise distinct, and
\* each id is "<document_id>_chunk_<chunk_index>" with the chunk's own metadata
\* chunk_index under recursive, fixed and semantic, and "<document_id>_page" in
\* whole-document mode, the document id being "unknown" when none is supplied.
ChunkIdsByIndex ==
    Returns =>
        /\ \A j, k \in 1..Len(chunks) :
               j # k => chunks[j].chunk_id # chunks[k].chunk_id
        /\ \A k \in 1..Len(chunks) :
               chunks[k].chunk_id =
                   IF strategy \in {"recursive", "fixed", "semantic"}
                   THEN DocumentId \o "_chunk_"
                            \o ToString(chunks[k].metadata.chunk_index)
                   ELSE DocumentId \o "_page"

ChunkIdsWitness ==
    /\ Returns
    /\ strategy = "recursive"
    /\ note_id = None
    /\ metadata # None
    /\ Len(chunks) >= 2
    /\ \E k \in 1..Len(chunks) : chunks[k].metadata.chunk_index # k - 1

\* the caller's metadata supplies the key
Supplied(key) == metadata # None /\ key \in DOMAIN Value(metadata)

\* C20 as stated: chunks of recursive, fixed and semantic carry chunk_index and
\* chunking_strategy and no total_chunks key unless the caller supplied one.
TotalChunksOnlyPage ==
    (Returns /\ strategy \in {"recursive", "fixed", "semantic"}) =>
        \A k \in 1..Len(chunks) :
            /\ {"chunk_index", "chunking_strategy"} \subseteq DOMAIN chunks[k].metadata
            /\ "total_chunks" \in DOMAIN chunks[k].metadata => Supplied("total_chunks")

\* C20: every chunk carries chunk_index and chunking_strategy; total_chunks is
\* emitted in whole-document mode (as 1) and by recursive (as the number of
\* fragments, at least the number of chunks returned); fixed and semantic
\* carry the key only as the caller supplied it.
TotalChunksPageAndRecursive ==
    Returns =>
        \A k \in 1..Len(chunks) :
            LET md == chunks[k].metadata
            IN  /\ {"chunk_index", "chunking_strategy"} \subseteq DOMAIN md
                /\ IF strategy \in {"fixed", "semantic"}
                   THEN IF Supplied("total_chunks")
                        THEN /\ "total_chunks" \in DOMAIN md
                             /\ md.total_chunks = Value(metadata).total_chunks
                        ELSE "total_chunks" \notin DOMAIN md
                   ELSE /\ "total_chunks" \in DOMAIN md
                        /\ IF strategy = "recursive"
                           THEN md.total_chunks >= Len(chunks)
                           ELSE md.total_chunks = 1

TotalChunksWitness ==
    /\ Returns
    /\ strategy = "fixed"
    /\ ~Supplied("total_chunks")
    /\ Len(chunks) >= 2
    /\ \A k \in 1..Len(chunks) : "total_chunks" \notin DOMAIN chunks[k].metadata

\* C21 as stated: every key of the caller's metadata is present in every
\* returned chunk's metadata with the caller's value, and the call leaves the
\* caller's mapping as it was.
CallerMetadataUnmodified ==
    /\ [][metadata' = metadata]_vars
    /\ [](Returns /\ metadata # None =>
            \A k \in 1..Len(chunks) : \A key \in DOMAIN Value(metadata) :
                /\ key \in DOMAIN chunks[k].metadata
                /\ chunks[k].metadata[key] = Value(metadata)[key])

\* C22: every returned chunk's token_count is the floor of a quarter of the
\* length of the content stored in the chunk.
TokenCountQuarterOfContent ==
    Returns =>
        \A k \in 1..Len(chunks) :
            /\ chunks[k].token_count * 4 <= Len(chunks[k].content)
            /\ Len(chunks[k].content) < (chunks[k].token_count + 1) * 4

TokenCountWitness ==
    /\ Returns
    /\ text # strip(text)
    /\ \E k \in 1..Len(chunks) :
           /\ chunks[k].token_count = 1
           /\ Len(chunks[k].content) > 4

\* C24 as stated: configuring a strategy never fails: no configured name makes
\* the construction of the chunker raise, and a chunker configured with a
\* name other than the four strategies returns the page result.
StrategyConfigurationNeverFails ==
    pc = "done" =>
        /\ exc # "ValidationError"
        /\ strategy \notin {"page", "recursive", "fixed", "semantic"} =>
               chunks = page_chunk(text, metadata_or_default, note_id_or_default).chunks

\* the end of the chunk before chunk k, where the search for chunk k starts
PreviousEnd(k) == IF k = 1 THEN 0 ELSE chunks[k - 1].end_char

\* C25: in a result of the recursive strategy every chunk's content is the
\* text between its offsets, consecutive chunks do not overlap, and each
\* start_char is where the forward search from the previous chunk's end finds
\* the content: the fall-back to the cursor is never taken.
RecursiveOffsetsExact ==
    (Returns /\ strategy = "recursive") =>
        \A k \in 1..Len(chunks) :
            /\ chunks[k].content = slice(text, chunks[k].start_char, chunks[k].end_char)
            /\ PreviousEnd(k) <= chunks[k].start_char
            /\ find(text, chunks[k].content, PreviousEnd(k)) = chunks[k].start_char

RecursiveOffsetsWitness ==
    /\ Returns
    /\ strategy = "recursive"
    /\ Len(chunks) >= 3
    /\ chunks[1].content = chunks[2].content
    /\ \E k \in 2..Len(chunks) : chunks[k].start_char > chunks[k - 1].end_char

\* the fragments at the start of the k-th separator round (k is 1-based)
RECURSIVE Fragments(_)
Fragments(k) ==
    IF k = 1 THEN <<text>> ELSE split_round(Fragments(k - 1), separators[k - 1])

\* the k-th separator round is run and does not raise
RECURSIVE RoundRuns(_)
RoundRuns(k) ==
    /\ k <= Len(separators)
    /\ ~round_raises(Fragments(k), separators[k])
    /\ k > 1 => RoundRuns(k - 1) /\ ~all_small(Fragments(k))

\* the places of the text where one fragment ends and the next begins
Boundaries(fs) == {Len(Concat(SubSeq(fs, 1, i))) : i \in 1..(Len(fs) - 1)}

\* the fragment of fs that holds the place b strictly inside
FragmentAround(fs, b) ==
    LET i == CHOOSE j \in 1..Len(fs) :
                 /\ Len(Concat(SubSeq(fs, 1, j - 1))) < b
                 /\ b < Len(Concat(SubSeq(fs, 1, j)))
    IN  fs[i]

\* C26: in every separator round of the recursive strategy the fragments still
\* make up the text, every boundary of the round before is kept, and every
\* new boundary lies right after an occurrence of the round's separator inside
\* a fragment that was over chunk_size at the start of the round, so fragments
\* within the limit pass through; a text within chunk_size is returned as one
\* trimmed chunk.
SeparatorPriorityRespected ==
    (pc = "done" /\ strategy = "recursive") =>
        /\ \A k \in 1..Len(separators) :
               RoundRuns(k) =>
                   LET before == Fragments(k)
                       after == split_round(before, separators[k])
                   IN  /\ Concat(after) = text
                       /\ Boundaries(before) \subseteq Boundaries(after)
                       /\ \A b \in Boundaries(after) \ Boundaries(before) :
                              /\ Len(FragmentAround(before, b)) > chunk_size
                              /\ slice(text, b - Len(separators[k]), b) = separators[k]
        /\ Len(text) <= chunk_size =>
               /\ exc = "none"
               /\ Contents = IF strip(text) = <<>> THEN <<>> ELSE <<strip(text)>>

\* a fragment within the limit that holds the round's separator passes
\* through a round that cuts another fragment
SeparatorPriorityWitness ==
    /\ Returns
    /\ strategy = "recursive"
    /\ Len(chunks) >= 2
    /\ \E k \in 2..Len(separators) :
           /\ RoundRuns(k)
           /\ Boundaries(split_round(Fragments(k), separators[k])) # Boundaries(Fragments(k))
           /\ \E i \in 1..Len(Fragments(k)) :
                  /\ Len(Fragments(k)[i]) <= chunk_size
                  /\ Len(pieces(Fragments(k)[i], separators[k])) >= 2

\* C27 as stated: the window of every chunk returned by the fixed strategy is
\* at most chunk_size characters wide.
FixedWindowWithinSize ==
    (Returns /\ strategy = "fixed") =>
        \A k \in 1..Len(chunks) :
            chunks[k].end_char - chunks[k].start_char <= chunk_size

\* C28: when the fixed strategy returns with chunk_overlap < chunk_size, every
\* character of the text that is not whitespace lies in the window of a
\* returned chunk whose content is the trimmed text of that window.
FixedDropsNoContent ==
    (Returns /\ strategy = "fixed" /\ chunk_overlap < chunk_size) =>
        \A p \in 0..(Len(text) - 1) :
            text[p + 1] \notin Whitespace =>
                \E k \in 1..Len(chunks) :
                    /\ chunks[k].start_char <= p
                    /\ p < chunks[k].end_char
                    /\ chunks[k].content =
                           strip(slice(text, chunks[k].start_char, chunks[k].end_char))

FixedDropsNoContentWitness ==
    /\ Returns
    /\ strategy = "fixed"
    /\ 1 <= chunk_overlap
    /\ chunk_overlap < chunk_size
    /\ Len(chunks) >= 3
    /\ \E k \in 1..(Len(chunks) - 1) :
           chunks[k + 1].start_char > chunks[k].end_char - chunk_overlap
    /\ \E p \in 1..Len(text) :
           /\ text[p] \notin Whitespace
           /\ Cardinality({k \in 1..Len(chunks) : p - 1 \in Window(k)}) >= 2

\* the fixed loop of a call run on its own, for at most fuel iterations
RECURSIVE FixedAlone(_, _)
FixedAlone(call, fuel) ==
    IF call.pc = "done" \/ fuel = 0 THEN call
    ELSE FixedAlone(fixed_iteration(call), fuel - 1)

\* the call of chunk_text on the text t, run with no other call
Alone(t) ==
    IF strategy = "fixed"
    THEN FixedAlone([NewCall(t) EXCEPT !.pc = IF 0 < Len(t) THEN "fixed_loop" ELSE "done"],
                    3 * Len(t) + chunk_overlap + 3)
    ELSE LET r == dispatch(t, <<>>, "unknown")
         IN  [NewCall(t) EXCEPT !.pc = "done", !.chunks = r.chunks, !.exc = r.exc]

\* C23: no step of a call of chunk_text writes the chunker's configuration, and
\* in every interleaving of two calls on one chunker a call that has ended
\* holds the chunks, or the exception, of the same call run on its own.
ConcurrentCallsIndependent ==
    /\ [][UNCHANGED <<chunk_size, chunk_overlap, strategy>>]_vars
    /\ [](\A c \in Callers :
            calls[c].pc = "done" =>
                /\ Alone(calls[c].text).pc = "done"
                /\ calls[c].chunks = Alone(calls[c].text).chunks
                /\ calls[c].exc = Alone(calls[c].text).exc)

\* one call has returned two chunks while the other is inside its loop
ConcurrentCallsWitness ==
    /\ calls # <<>>
    /\ strategy = "fixed"
    /\ calls[1].pc = "done"
    /\ calls[1].exc = "none"
    /\ Len(calls[1].chunks) >= 2
    /\ calls[2].pc = "fixed_loop"
    /\ Len(calls[2].chunks) = 1
    /\ calls[2].text # calls[1].text

\* the history is user and assistant messages in turn
Alternating(history) ==
    /\ Len(history) % 2 = 0
    /\ \A i \in 1..Len(history) :
           history[i].role = IF i % 2 = 1 THEN "user" ELSE "assistant"

\* C29 as stated: the history never holds more than 2 * max_history messages
\* and is user and assistant messages in turn; an answered query leaves the
\* most recent messages of the history with the new pair appended; a query
\* that raises or finds no context leaves the history as it was.
AgentHistoryBounded ==
    /\ [](Len(conversation_history) <= 2 * max_history)
    /\ []Alternating(conversation_history)
    /\ [][last_query' = "answered" =>
             \E question \in Questions, answer \in Answers :
                 LET appended == conversation_history \o
                         <<Message("user", question), Message("assistant", answer)>>
                     kept == Min(Len(appended), 2 * max_history)
                 IN  conversation_history' =
                         SubSeq(appended, Len(appended) - kept + 1, Len(appended))]_vars
    /\ [][last_query' \in {"raised", "no_context"} =>
             conversation_history' = conversation_history]_vars

\* the number of chunks of the first n parsed notes
RECURSIVE ChunksOfNotes(_)
ChunksOfNotes(n) == IF n = 0 THEN 0 ELSE ChunksOfNotes(n - 1) + notes[n].n_chunks

\* C30: upsert_chunks is called only in a run that is not a dry run, after
\* every parsed note was chunked and every chunk embedded; nothing is written
\* without that call; and in a dry run, with no notes parsed, or when parsing,
\* chunking or embedding has raised, upsert_chunks is not called and
\* vectors_stored is 0.
IngestStoresAfterEmbedding ==
    /\ upsert_calls > 0 =>
           /\ ~dry_run
           /\ notes # <<>>
           /\ next_note = Len(notes)
           /\ \A i \in 1..Len(notes) : ~notes[i].raises
           /\ Len(all_chunks) = ChunksOfNotes(Len(notes))
           /\ Len(embeddings) = Len(all_chunks)
           /\ chunk_embedding_pairs =
                  [i \in 1..Len(all_chunks) |-> <<all_chunks[i], embedding_of(all_chunks[i])>>]
    /\ (upserted # <<>> \/ stats.vectors_stored > 0) => upsert_calls > 0
    /\ (dry_run \/ notes = <<>> \/ ingest_exc \in {"parse", "chunk", "embed"}) =>
           /\ upsert_calls = 0
           /\ upserted = <<>>
           /\ stats.vectors_stored = 0

\* a run that stored the chunks of two notes, embedded in more than one batch
IngestStoresWitness ==
    /\ ingest_pc = "done"
    /\ ingest_exc = "none"
    /\ upsert_calls = 1
    /\ Len(notes) = 2
    /\ Len(all_chunks) > batch_size
    /\ stats.vectors_stored = Len(all_chunks)
    /\ Len(upserted) = Len(all_chunks)


====
